---- MODULE Spec2Model ----
(***************************************************************************)
(* A model of seed.c: a Lua executable that mounts the zip archive         *)
(* appended to itself (or named by its first argument) through PhysicsFS,  *)
(* registers a package loader that searches the archive, exposes the       *)
(* 'seed' module (loadfile, open, file:read, file:close, __gc) and runs    *)
(* init.lua with the command-line arguments.                               *)
(*                                                                         *)
(* Strings that the program inspects character by character (module names *)
(* and archive paths) are sequences of one-character strings; argv entries *)
(* and messages are atomic strings.  File contents are sequences of bytes. *)
(***************************************************************************)
EXTENDS Integers, Sequences, FiniteSets, TLC

VARIABLES
    pc,               \* main's position
    argv,             \* the argument vector, argv[1] is C's argv[0]
    selfOk,           \* whether the executable itself carries an archive
    initOk,           \* whether PHYSFS_init succeeds
    archive,          \* the archive's files: sanitized path -> bytes
    chain0,           \* package.loaders as luaL_openlibs leaves it
    LUAL_BUFFERSIZE,  \* luaconf.h: capacity of a luaL_Buffer chunk
    BUFSIZ,           \* stdio.h: the size reader() asks PHYSFS_read for
    skip_arg,         \* main's skip_arg
    mounts,           \* PHYSFS_mount calls so far: <<[path, ok]>>
    lua,              \* "none" | "open" | "closed": the lua_State
    loaders,          \* package.loaders
    arg,              \* the global 'arg' table: index -> string
    stack,            \* main's Lua stack, bottom first
    error,            \* main's error
    forwarded,        \* the arguments the entry point was called with
    handler,          \* what the run's lua_pcall used as error handler
    stderr,           \* what was written to standard error
    exitCode,         \* main's return value, -1 while running
    physfs,           \* "off" | "on" | "deinit": the PhysicsFS library
    fds,              \* the PHYSFS_file objects: <<[path, pos, open]>>
    handles,          \* seed.file userdata: <<[file, collected]>>
    got,              \* per open handle, the bytes its reads returned
    last,             \* the last seed call of the script and its outcome
    module,           \* to_filename's argument
    filename,         \* to_filename's result
    overrun           \* a pull of reader() wrote past the end of rd->buffer

vars == <<pc, argv, selfOk, initOk, archive, chain0, LUAL_BUFFERSIZE, BUFSIZ,
          skip_arg, mounts, lua, loaders, arg, stack, error, forwarded,
          handler, stderr, exitCode, physfs, fds, handles, got, last,
          module, filename, overrun>>

----------------------------------------------------------------------------
(* Bounds of the model *)

MaxArgs == 3          \* arguments after argv[0]
MaxFileLen == 2       \* longest data file in the archive
MaxFds == 1           \* PHYSFS_file objects open at a time
MaxHandles == MaxFds  \* seed.file handles alive at a time
MaxBufferSize == 2    \* the larger of the two chunk capacities tried
MaxModLen == 7        \* longest module name given to to_filename
MaxChain == 3         \* longest initial package.loaders tried

Min(a, b) == IF a < b THEN a ELSE b

RECURSIVE SeqsUpTo(_, _)
SeqsUpTo(S, n) ==
    IF n = 0 THEN {<<>>}
    ELSE LET shorter == SeqsUpTo(S, n - 1)
         IN  shorter \cup {Append(s, x) : s \in shorter, x \in S}

----------------------------------------------------------------------------
(* Lua values a seed call can produce *)

NoPath == <<>>

Val(kind, bytes, msg, h, path) ==
    [kind |-> kind, bytes |-> bytes, msg |-> msg, h |-> h, path |-> path]

LuaNone == Val("none", <<>>, "", 0, NoPath)
LuaTrue == Val("true", <<>>, "", 0, NoPath)
LuaNil == Val("nil", <<>>, "", 0, NoPath)
LuaNilMsg(m) == Val("nilmsg", <<>>, m, 0, NoPath)       \* the pair nil, m
LuaString(b) == Val("string", b, "", 0, NoPath)
LuaHandle(h) == Val("handle", <<>>, "", h, NoPath)
LuaFunction(b, p) == Val("function", b, "", 0, p)       \* a compiled chunk
LuaMessage(m, p) == Val("message", <<>>, m, 0, p)       \* a string about p
LuaError(m) == Val("error", <<>>, m, 0, NoPath)         \* raised, not returned
LuaErrorAt(m, p) == Val("error", <<>>, m, 0, p)

----------------------------------------------------------------------------
(* PhysicsFS, as seed.c uses it *)

NULL == 0

RECURSIVE Sanitize(_)
Sanitize(p) ==
    IF p # <<>> /\ Head(p) = "/" THEN Sanitize(Tail(p)) ELSE p

PHYSFS_exists(p) == Sanitize(p) \in DOMAIN archive

\* The first free place of a table whose entries satisfy used, or the place
\* after its end.
FirstFree(table, used(_)) ==
    IF \E i \in 1..Len(table) : ~used(table[i])
    THEN CHOOSE i \in 1..Len(table) :
            /\ ~used(table[i])
            /\ \A j \in 1..(i - 1) : used(table[j])
    ELSE Len(table) + 1

Put(table, i, x) ==
    IF i = Len(table) + 1 THEN Append(table, x) ELSE [table EXCEPT ![i] = x]

IsOpen(f) == f.open

\* The new table and the new object's place in it, NULL when the open fails.
\* The memory of a closed PHYSFS_file is used again.
PHYSFS_openRead(p, envOk) ==
    IF PHYSFS_exists(p) /\ envOk
    THEN [fds |-> Put(fds, FirstFree(fds, IsOpen),
                      [path |-> Sanitize(p), pos |-> 0, open |-> TRUE]),
          file |-> FirstFree(fds, IsOpen)]
    ELSE [fds |-> fds, file |-> NULL]

PHYSFS_eof(f) == fds[f].pos >= Len(archive[fds[f].path])

\* A closed PHYSFS_file is freed: nothing of it remains.
Freed == [path |-> <<>>, pos |-> 0, open |-> FALSE]

PHYSFS_close(table, f) == [table EXCEPT ![f] = Freed]


\* PHYSFS_read(file, buf, 1, count): the number of bytes delivered, 0 at the
\* end of the file, -1 when the read fails.
PHYSFS_read(content, pos, count, fails) ==
    IF fails THEN -1 ELSE Min(count, Len(content) - pos)

----------------------------------------------------------------------------
(* The archive of the model: data files of every length 0..MaxFileLen and   *)
(* a few Lua sources.  A source compiles unless it holds a 0 byte.          *)

DataPath(k) == <<"d">> \o [i \in 1..k |-> "x"]
DataBytes(k) == [i \in 1..k |-> i]
DataPaths == {DataPath(k) : k \in 0..MaxFileLen}

InitLua == <<"i", "n", "i", "t", ".", "l", "u", "a">>
ModM == <<"m">>
ModPQ == <<"p", ".", "q">>
ModBad == <<"b">>
ModNone == <<"n">>
PathM == <<"m", ".", "l", "u", "a">>
PathPQ == <<"p", "/", "q", ".", "l", "u", "a">>
PathBad == <<"b", ".", "l", "u", "a">>
MissingPath == <<"n", "o">>

Sources(initBytes) ==
    [p \in {InitLua, PathM, PathPQ, PathBad} |->
        IF p = InitLua THEN initBytes
        ELSE IF p = PathM THEN <<1, 2, 3>>
        ELSE IF p = PathPQ THEN <<4>>
        ELSE <<1, 0, 2>>]

Data == [p \in DataPaths |-> DataBytes(Len(p) - 1)]

ArchiveWith(src) ==
    [p \in DOMAIN src \cup DOMAIN Data |->
        IF p \in DOMAIN src THEN src[p] ELSE Data[p]]

GoodArchive == ArchiveWith(Sources(<<5, 6, 7>>))
BadInitArchive == ArchiveWith(Sources(<<5, 0>>))
NoInitArchive == ArchiveWith([p \in {PathM} |-> <<1, 2, 3>>])

\* lua_load's verdict on a complete source text
LuaCompiles(bytes) == \A i \in 1..Len(bytes) : bytes[i] # 0

----------------------------------------------------------------------------
(* The seed module *)

\* What a seed call leaves behind.  touched: a PhysicsFS call was made on a
\* PHYSFS_file; failed: a PHYSFS_read of the call returned -1.
Outcome(res, newFds, newHandles, newGot, touched, failed) ==
    [res |-> res, fds |-> newFds, handles |-> newHandles, got |-> newGot,
     touched |-> touched, failed |-> failed]

\* reader (lines 92-100) as lua_load drives it: pulls until a pull returns 0
\* bytes.  Yields the text handed to the compiler, or failed when a pull's
\* PHYSFS_read returned -1 (reader raises).  overrun: a pull put more bytes
\* into rd->buffer than the buffer holds.
RECURSIVE reader(_, _, _, _, _)
reader(content, pos, text, i, failAt) ==
    LET ret == PHYSFS_read(content, pos, BUFSIZ, i = failAt)
    IN  IF ret = -1
        THEN [text |-> text, failed |-> TRUE, pulls |-> i,
              overrun |-> FALSE]
        ELSE IF ret = 0
        THEN [text |-> text, failed |-> FALSE, pulls |-> i,
              overrun |-> FALSE]
        ELSE LET rest == reader(content, pos + ret,
                                text \o SubSeq(content, pos + 1, pos + ret),
                                i + 1, failAt)
             IN  [rest EXCEPT !.overrun = @ \/ ret > LUAL_BUFFERSIZE]

\* seed_loadfile with a failed pull taken for the end of the file
seed_loadfile_failure_as_eof(p, envOk, failAt) ==
    LET o == PHYSFS_openRead(p, envOk)
    IN  IF o.file = NULL
        THEN [res |-> LuaErrorAt("couldn't open file", p), fds |-> fds,
              failed |-> FALSE, overrun |-> FALSE]
        ELSE LET r == reader(archive[Sanitize(p)], 0, <<>>, 1, failAt)
             IN  IF ~LuaCompiles(r.text)
                 THEN [res |-> LuaErrorAt("syntax error", p),
                       fds |-> o.fds, failed |-> r.failed,
                       overrun |-> r.overrun]
                 ELSE [res |-> LuaFunction(r.text, p),
                       fds |-> PHYSFS_close(o.fds, o.file),
                       failed |-> r.failed, overrun |-> r.overrun]

\* seed_loadfile (lines 102-114).  envOk: PHYSFS_openRead can open the
\* file if it exists.  The PHYSFS_file is closed on line 112 only.
seed_loadfile(p, envOk, failAt) ==
    LET o == PHYSFS_openRead(p, envOk)
    IN  IF o.file = NULL
        THEN [res |-> LuaErrorAt("couldn't open file", p), fds |-> fds,
              failed |-> FALSE, overrun |-> FALSE]
        ELSE LET r == reader(archive[Sanitize(p)], 0, <<>>, 1, failAt)
             IN  IF r.failed
                 THEN [res |-> LuaErrorAt("error reading file", p),
                       fds |-> o.fds, failed |-> TRUE,
                       overrun |-> r.overrun]
                 ELSE IF ~LuaCompiles(r.text)
                 THEN [res |-> LuaErrorAt("syntax error", p),
                       fds |-> o.fds, failed |-> FALSE,
                       overrun |-> r.overrun]
                 ELSE [res |-> LuaFunction(r.text, p),
                       fds |-> PHYSFS_close(o.fds, o.file),
                       failed |-> FALSE, overrun |-> r.overrun]

\* check_seed_open_file (lines 121-126): FALSE when it raises
check_seed_open_file(h) == handles[h].file # NULL

ClosedFile == LuaError("attempt to use a closed file")

\* luaL_checkoption taking any string for the first option of the list
luaL_checkoption_any(opt, def, list) == 0

\* luaL_checkoption(L, 2, def, list): the option's index, -1 when it raises
luaL_checkoption(opt, def, list) ==
    LET name == IF opt = "" THEN def ELSE opt
    IN  IF \E i \in 1..Len(list) : list[i] = name
        THEN (CHOOSE i \in 1..Len(list) : list[i] = name) - 1
        ELSE -1

IsLive(h) == ~h.collected

\* seed_open (lines 128-160); mode "" is an omitted or nil second argument.
\* The new userdata takes the place of a collected one.
seed_open(p, mode, envOk) ==
    IF luaL_checkoption(mode, "rb", <<"rb">>) = -1
    THEN Outcome(LuaError("invalid option"), fds, handles, got, FALSE, FALSE)
    ELSE LET o == PHYSFS_openRead(p, envOk)
             h == FirstFree(handles, IsLive)
         IN  IF o.file # NULL
             THEN Outcome(LuaHandle(h), o.fds,
                          Put(handles, h, [file |-> o.file,
                                           collected |-> FALSE]),
                          Put(got, h, <<>>), TRUE, FALSE)
             ELSE Outcome(LuaNilMsg(IF PHYSFS_exists(p)
                                    THEN "Can't open file"
                                    ELSE "File not found"),
                          fds, handles, got, FALSE, FALSE)

\* seed_file_close without line 167: the pointer is left as it was
seed_file_close_keeps_pointer(h, closeOk) ==
    IF ~check_seed_open_file(h)
    THEN Outcome(ClosedFile, fds, handles, got, FALSE, FALSE)
    ELSE IF closeOk
    THEN Outcome(LuaTrue, PHYSFS_close(fds, handles[h].file), handles, got,
                 TRUE, FALSE)
    ELSE Outcome(LuaNilMsg("close failed"), fds, handles, got, TRUE, FALSE)

\* seed_file_close with line 167 moved before the test of PHYSFS_close
seed_file_close_nulls_on_failure(h, closeOk) ==
    IF ~check_seed_open_file(h)
    THEN Outcome(ClosedFile, fds, handles, got, FALSE, FALSE)
    ELSE IF closeOk
    THEN Outcome(LuaTrue, PHYSFS_close(fds, handles[h].file),
                 [handles EXCEPT ![h].file = NULL],
                 [got EXCEPT ![h] = <<>>], TRUE, FALSE)
    ELSE Outcome(LuaNilMsg("close failed"), fds,
                 [handles EXCEPT ![h].file = NULL], got, TRUE, FALSE)

\* seed_file_close (lines 162-177); closeOk: PHYSFS_close succeeds
seed_file_close(h, closeOk) ==
    IF ~check_seed_open_file(h)
    THEN Outcome(ClosedFile, fds, handles, got, FALSE, FALSE)
    ELSE IF closeOk
    THEN Outcome(LuaTrue, PHYSFS_close(fds, handles[h].file),
                 [handles EXCEPT ![h].file = NULL],
                 [got EXCEPT ![h] = <<>>], TRUE, FALSE)
    ELSE Outcome(LuaNilMsg("close failed"), fds, handles, got, TRUE, FALSE)

\* read_bytes (lines 179-202) from position pos of content.  The i-th
\* PHYSFS_read fails when i = failAt.
RECURSIVE read_bytes(_, _, _, _, _, _)
read_bytes(content, pos, bytes, lbuf, i, failAt) ==
    LET to_read == IF LUAL_BUFFERSIZE > bytes THEN bytes ELSE LUAL_BUFFERSIZE
        read == PHYSFS_read(content, pos, to_read, i = failAt)
    IN  IF read > 0
        THEN LET added == lbuf \o SubSeq(content, pos + 1, pos + read)
             IN  IF bytes - read > 0
                 THEN read_bytes(content, pos + read, bytes - read, added,
                                 i + 1, failAt)
                 ELSE [bytes |-> added, pos |-> pos + read, failed |-> FALSE]
        ELSE [bytes |-> lbuf, pos |-> pos, failed |-> read = -1]

\* (PHYSFS_uint64)-1 of line 225, as far as TLC's integers reach
UINT64_MAX == 2147483647

\* The argument of file:read: a number, an option string, or nothing ("")
NumArg(n) == [num |-> TRUE, n |-> n, opt |-> ""]
OptArg(s) == [num |-> FALSE, n |-> 0, opt |-> s]

\* seed_file_read without the PHYSFS_eof test of line 212
seed_file_read_no_eof_test(h, a, failAt) ==
    IF ~check_seed_open_file(h)
    THEN Outcome(ClosedFile, fds, handles, got, FALSE, FALSE)
    ELSE LET f == handles[h].file
             content == archive[fds[f].path]
             bytes == IF a.num THEN a.n ELSE UINT64_MAX
             r == read_bytes(content, fds[f].pos, bytes, <<>>, 1, failAt)
         IN  IF a.num /\ ~(a.n >= 0)
             THEN Outcome(LuaError("negative number of bytes"),
                          fds, handles, got, FALSE, FALSE)
             ELSE IF ~a.num /\ luaL_checkoption(a.opt, "*a", <<"*a">>) = -1
             THEN Outcome(LuaError("invalid option"),
                          fds, handles, got, FALSE, FALSE)
             ELSE Outcome(LuaString(r.bytes),
                          [fds EXCEPT ![f].pos = r.pos], handles,
                          [got EXCEPT ![h] = @ \o r.bytes], TRUE, r.failed)

\* seed_file_read (lines 204-228)
seed_file_read(h, a, failAt) ==
    IF ~check_seed_open_file(h)
    THEN Outcome(ClosedFile, fds, handles, got, FALSE, FALSE)
    ELSE LET f == handles[h].file
             content == archive[fds[f].path]
         IN  IF a.num
             THEN IF ~(a.n >= 0)
                  THEN Outcome(LuaError("negative number of bytes"),
                               fds, handles, got, FALSE, FALSE)
                  ELSE IF PHYSFS_eof(f)
                  THEN Outcome(LuaNil, fds, handles, got, TRUE, FALSE)
                  ELSE LET r == read_bytes(content, fds[f].pos, a.n, <<>>,
                                           1, failAt)
                       IN  Outcome(LuaString(r.bytes),
                                   [fds EXCEPT ![f].pos = r.pos], handles,
                                   [got EXCEPT ![h] = @ \o r.bytes],
                                   TRUE, r.failed)
             ELSE IF luaL_checkoption(a.opt, "*a", <<"*a">>) = -1
                  THEN Outcome(LuaError("invalid option"),
                               fds, handles, got, FALSE, FALSE)
                  ELSE LET r == read_bytes(content, fds[f].pos, UINT64_MAX,
                                           <<>>, 1, failAt)
                       IN  Outcome(LuaString(r.bytes),
                                   [fds EXCEPT ![f].pos = r.pos], handles,
                                   [got EXCEPT ![h] = @ \o r.bytes],
                                   TRUE, r.failed)

\* A collected userdata: its memory is gone
Collected == [file |-> NULL, collected |-> TRUE]

\* seed_file_gc without the test of *file on line 233
seed_file_gc_no_null_test(h, closeOk) ==
    LET o == seed_file_close(h, closeOk)
    IN  Outcome(o.res, o.fds, [o.handles EXCEPT ![h] = Collected],
                [o.got EXCEPT ![h] = <<>>], o.touched, FALSE)

\* seed_file_gc (lines 230-235): the userdata is collected whether or not
\* the close succeeded
seed_file_gc(h, closeOk) ==
    LET o == IF handles[h].file # NULL
             THEN seed_file_close(h, closeOk)
             ELSE Outcome(LuaNone, fds, handles, got, FALSE, FALSE)
    IN  Outcome(LuaNone, o.fds, [o.handles EXCEPT ![h] = Collected],
                [o.got EXCEPT ![h] = <<>>], o.touched, FALSE)

----------------------------------------------------------------------------
(* physfs require support *)

\* luaL_gsub replacing the first occurrence only
luaL_gsub_first_only(s, p, r) ==
    IF \E i \in 1..Len(s) : s[i] = p
    THEN LET i == CHOOSE i \in 1..Len(s) :
                     s[i] = p /\ \A j \in 1..(i - 1) : s[j] # p
         IN  SubSeq(s, 1, i - 1) \o <<r>> \o SubSeq(s, i + 1, Len(s))
    ELSE s

\* luaL_gsub(L, s, ".", "/"): every "." of s replaced
RECURSIVE luaL_gsub(_, _, _)
luaL_gsub(s, p, r) ==
    IF s = <<>> THEN <<>>
    ELSE (IF Head(s) = p THEN <<r>> ELSE <<Head(s)>>)
         \o luaL_gsub(Tail(s), p, r)

DotLua == <<".", "l", "u", "a">>

\* to_filename (lines 266-275)
to_filename(m) == <<"/">> \o luaL_gsub(m, ".", "/") \o DotLua

\* physfs_searcher without the PHYSFS_exists test of line 282
physfs_searcher_no_exists_test(m, envOk, failAt) ==
    LET name == to_filename(m)
        r == seed_loadfile(name, envOk, failAt)
    IN  Outcome(r.res, r.fds, handles, got, TRUE, r.failed)

\* physfs_searcher (lines 277-294)
physfs_searcher(m, envOk, failAt) ==
    LET name == to_filename(m)
    IN  IF PHYSFS_exists(name)
        THEN LET r == seed_loadfile(name, envOk, failAt)
             IN  Outcome(r.res, r.fds, handles, got, TRUE, r.failed)
        ELSE Outcome(LuaMessage("no physfs file", name), fds, handles, got,
                     FALSE, FALSE)

\* table.insert(t, pos, v) of Lua 5.1 on a sequence t with pos <= #t + 1
table_insert(t, pos, v) ==
    [i \in 1..(Len(t) + 1) |->
        IF i < pos THEN t[i] ELSE IF i = pos THEN v ELSE t[i - 1]]

\* init_physfs_loader with the searcher put at the end of package.loaders
init_physfs_loader_appends(t) ==
    table_insert(t, Len(t) + 1, "physfs_searcher")

\* init_physfs_loader (lines 296-316)
init_physfs_loader(t) == table_insert(t, 2, "physfs_searcher")


----------------------------------------------------------------------------
(* main *)

argc == Len(argv)
Argv(i) == argv[i + 1]                  \* C's argv[i]

MountablePaths == {"game.zip"}
PHYSFS_mount(p) == IF p = "self" THEN selfOk ELSE p \in MountablePaths

LUA_ERRRUN == 2
LUA_ERRERR == 5

\* A slot of main's Lua stack
Slot(kind, s) == [kind |-> kind, s |-> s]
NoSlot == Slot("none", "")

\* The last seed call: nothing yet
NoCall ==
    [op |-> "none", h |-> 0, a |-> OptArg(""), p |-> NoPath, mode |-> "",
     pos0 |-> 0, open0 |-> FALSE, touched |-> FALSE, failed |-> FALSE,
     res |-> LuaNone]

Call(op, h, a, p, mode, o) ==
    [op |-> op, h |-> h, a |-> a, p |-> p, mode |-> mode,
     pos0 |-> IF h # 0 /\ handles[h].file # NULL
              THEN fds[handles[h].file].pos ELSE 0,
     open0 |-> h # 0 /\ handles[h].file # NULL,
     touched |-> o.touched, failed |-> o.failed, res |-> o.res]

\* lines 337-342
PhysfsInit ==
    /\ pc = "start"
    /\ IF initOk
       THEN /\ physfs' = "on"
            /\ pc' = "mount"
            /\ UNCHANGED <<stderr, exitCode>>
       ELSE /\ stderr' = Append(stderr, Slot("text", "physfs init failed"))
            /\ exitCode' = 1
            /\ pc' = "exit"
            /\ UNCHANGED physfs
    /\ UNCHANGED <<argv, selfOk, initOk, archive, chain0, LUAL_BUFFERSIZE,
                   BUFSIZ, skip_arg, mounts, lua, loaders, arg, stack, error,
                   forwarded, handler, fds, handles, got, last, module,
                   filename, overrun>>

\* lines 352-355, with the fallback's failure overlooked
NoArchive_ignores_fallback_failure ==
    ~PHYSFS_mount("self") /\ argc < 2

\* lines 352-355: neither the executable nor argv[1] could be mounted
NoArchive ==
    ~PHYSFS_mount("self") /\ (argc < 2 \/ ~PHYSFS_mount(Argv(1)))

\* Lines 352-355 with the second PHYSFS_mount not nested in the first's
\* failure
MountAttempts_always_both ==
    IF argc < 2
    THEN <<[path |-> "self", ok |-> PHYSFS_mount("self")]>>
    ELSE <<[path |-> "self", ok |-> PHYSFS_mount("self")],
           [path |-> Argv(1), ok |-> PHYSFS_mount(Argv(1))]>>

\* The PHYSFS_mount calls of lines 352-355 and what each returned
MountAttempts ==
    IF PHYSFS_mount("self")
    THEN <<[path |-> "self", ok |-> TRUE]>>
    ELSE IF argc < 2
    THEN <<[path |-> "self", ok |-> FALSE]>>
    ELSE <<[path |-> "self", ok |-> FALSE],
           [path |-> Argv(1), ok |-> PHYSFS_mount(Argv(1))]>>

\* lines 344-362
Mount ==
    /\ pc = "mount"
    /\ mounts' = MountAttempts
    /\ skip_arg' = IF PHYSFS_mount("self") THEN skip_arg ELSE skip_arg + 1
    /\ IF NoArchive
       THEN /\ stderr' = Append(stderr, Slot("text", "no archive found"))
            /\ exitCode' = 1
            /\ pc' = "exit"
       ELSE /\ pc' = "lua"
            /\ UNCHANGED <<stderr, exitCode>>
    /\ UNCHANGED <<argv, selfOk, initOk, archive, chain0, LUAL_BUFFERSIZE,
                   BUFSIZ, lua, loaders, arg, stack, error, forwarded,
                   handler, physfs, fds, handles, got, last, module,
                   filename, overrun>>

\* lines 364-368
LuaOpen ==
    /\ pc = "lua"
    /\ lua' = "open"
    /\ loaders' = init_physfs_loader(chain0)
    /\ pc' = "args"
    /\ UNCHANGED <<argv, selfOk, initOk, archive, chain0, LUAL_BUFFERSIZE,
                   BUFSIZ, skip_arg, mounts, arg, stack, error, forwarded,
                   handler, stderr, exitCode, physfs, fds, handles, got,
                   last, module, filename, overrun>>

\* lines 370-377: arg[i - skip_arg + 1] = argv[i] for i = 0 .. argc - 1
ArgTable ==
    [k \in (1 - skip_arg)..(argc - skip_arg) |-> Argv(k + skip_arg - 1)]

LoadArgs ==
    /\ pc = "args"
    /\ arg' = ArgTable
    /\ pc' = "load"
    /\ UNCHANGED <<argv, selfOk, initOk, archive, chain0, LUAL_BUFFERSIZE,
                   BUFSIZ, skip_arg, mounts, lua, loaders, stack, error,
                   forwarded, handler, stderr, exitCode, physfs, fds,
                   handles, got, last, module, filename, overrun>>

\* lines 379-385: lua_pcall(L, 1, 1, 0) of seed_loadfile("init.lua")
LoadEntry ==
    /\ pc = "load"
    /\ \E envOk \in BOOLEAN, failAt \in 0..2 :
          LET r == seed_loadfile(InitLua, envOk, failAt)
          IN  /\ fds' = r.fds
              /\ overrun' = (overrun \/ r.overrun)
              /\ IF r.res.kind = "function"
                 THEN /\ stack' = <<Slot("table", "debug"),
                                    Slot("function", "traceback"),
                                    Slot("function", "chunk")>>
                      /\ error' = 0
                      /\ pc' = "call"
                 ELSE /\ stack' = <<Slot("table", "debug"),
                                    Slot("function", "traceback"),
                                    Slot("message", r.res.msg)>>
                      /\ error' = LUA_ERRRUN
                      /\ pc' = "report"
    /\ UNCHANGED <<argv, selfOk, initOk, archive, chain0, LUAL_BUFFERSIZE,
                   BUFSIZ, skip_arg, mounts, lua, loaders, arg, forwarded,
                   handler, stderr, exitCode, physfs, handles, got, last,
                   module, filename>>

\* lines 390-392 without the skip offset in the index
PushedArgs_unskipped == [i \in 1..(argc - skip_arg) |-> Argv(i)]

\* lines 390-392: the strings pushed as the chunk's arguments
PushedArgs == [i \in 1..(argc - skip_arg) |-> Argv(i + skip_arg - 1)]

\* The errfunc index of line 393, as a position of the stack at the call
Errfunc == -2

\* lines 387-393, up to the point where the chunk starts to run
CallEntry ==
    /\ pc = "call"
    /\ LET pushed == stack \o [i \in 1..Len(PushedArgs) |->
                                   Slot("string", PushedArgs[i])]
       IN  /\ handler' = pushed[Len(pushed) + 1 + Errfunc]
           /\ stack' = pushed
    /\ forwarded' = PushedArgs
    /\ pc' = "run"
    /\ UNCHANGED <<argv, selfOk, initOk, archive, chain0, LUAL_BUFFERSIZE,
                   BUFSIZ, skip_arg, mounts, lua, loaders, arg, error,
                   stderr, exitCode, physfs, fds, handles, got, last,
                   module, filename, overrun>>


\* What the script's seed calls leave alone
mainVars == <<pc, argv, selfOk, initOk, archive, chain0, LUAL_BUFFERSIZE,
              BUFSIZ, skip_arg, mounts, lua, loaders, arg, stack, error,
              forwarded, handler, stderr, exitCode, physfs, module, filename>>

Apply(o, call) ==
    /\ fds' = o.fds
    /\ handles' = o.handles
    /\ got' = o.got
    /\ last' = call
    /\ UNCHANGED mainVars

OpenPaths == DataPaths \cup {MissingPath}
ReadArgs ==
    {NumArg(n) : n \in (-1)..(MaxFileLen + 1)}
        \cup {OptArg(""), OptArg("*a"), OptArg("*l")}
LoadPaths == {PathM, PathBad, MissingPath}
Modules == {ModM, ModPQ, ModBad, ModNone}
Live == {h \in 1..Len(handles) : ~handles[h].collected}

\* What PHYSFS_openRead may do with p: fail, or succeed if p exists
OpenEnv(p) == IF PHYSFS_exists(p) THEN BOOLEAN ELSE {FALSE}

\* Which PHYSFS_read of a call fails: the first, the second, or none
FailAts == 0..2

\* The chunk calls seed.open(p, mode) for one of paths, while fewer than
\* maxFds PHYSFS_file objects are open and fewer than maxHandles userdata
\* are live
OpenUpTo(maxFds, maxHandles, paths) ==
    /\ pc = "run"
    /\ UNCHANGED overrun
    /\ FirstFree(fds, IsOpen) <= maxFds
    /\ FirstFree(handles, IsLive) <= maxHandles
    /\ \E p \in paths, mode \in {"", "rb", "wb"} :
          \E envOk \in OpenEnv(p) :
             LET o == seed_open(p, mode, envOk)
             IN  Apply(o, Call("open", 0, OptArg(""), p, mode, o))

Open == OpenUpTo(MaxFds, MaxHandles, OpenPaths)

\* The same with room for one more handle, on two files
OpenSeveral ==
    OpenUpTo(MaxFds + 1, MaxHandles + 1, {DataPath(0), DataPath(1)})

\* The chunk calls h:read(a)
Read ==
    /\ pc = "run"
    /\ UNCHANGED overrun
    /\ \E h \in Live, a \in ReadArgs, failAt \in FailAts :
          LET o == seed_file_read(h, a, failAt)
          IN  Apply(o, Call("read", h, a, NoPath, "", o))

\* The chunk calls h:close()
Close ==
    /\ pc = "run"
    /\ UNCHANGED overrun
    /\ \E h \in Live, closeOk \in BOOLEAN :
          LET o == seed_file_close(h, closeOk)
          IN  Apply(o, Call("close", h, OptArg(""), NoPath, "", o))

\* The collector finalizes a handle the chunk no longer refers to
Gc ==
    /\ pc = "run"
    /\ UNCHANGED overrun
    /\ \E h \in Live, closeOk \in BOOLEAN :
          LET o == seed_file_gc(h, closeOk)
          IN  Apply(o, Call("gc", h, OptArg(""), NoPath, "", o))

\* The chunk calls seed.loadfile(p)
LoadFile ==
    /\ pc = "run"
    /\ FirstFree(fds, IsOpen) <= MaxFds
    /\ \E p \in LoadPaths, failAt \in FailAts :
          \E envOk \in OpenEnv(p) :
             LET r == seed_loadfile(p, envOk, failAt)
                 o == Outcome(r.res, r.fds, handles, got, TRUE, r.failed)
             IN  /\ Apply(o, Call("loadfile", 0, OptArg(""), p, "", o))
                 /\ overrun' = (overrun \/ r.overrun)

\* require(m) reaches the archive's searcher
Require ==
    /\ pc = "run"
    /\ FirstFree(fds, IsOpen) <= MaxFds
    /\ \E m \in Modules, failAt \in FailAts :
          \E envOk \in OpenEnv(to_filename(m)) :
             LET o == physfs_searcher(m, envOk, failAt)
                 name == to_filename(m)
             IN  /\ Apply(o, Call("searcher", 0, OptArg(""), m, "", o))
                 /\ overrun' = (overrun \/ (o.touched /\
                        seed_loadfile(name, envOk, failAt).overrun))

StackBase == <<Slot("table", "debug"), Slot("function", "traceback")>>

\* The chunk returns: lua_pcall of line 393 yields 0
ScriptReturn ==
    /\ pc = "run"
    /\ stack' = StackBase
    /\ error' = 0
    /\ pc' = "report"
    /\ last' = NoCall
    /\ UNCHANGED <<argv, selfOk, initOk, archive, chain0, LUAL_BUFFERSIZE,
                   BUFSIZ, skip_arg, mounts, lua, loaders, arg, forwarded,
                   handler, stderr, exitCode, physfs, fds, handles, got,
                   module, filename, overrun>>

\* What lua_pcall leaves when the chunk raises and errfunc names slot h:
\* a function is called with the message (debug.traceback returns the trace;
\* the chunk, called as a handler, returns something of its own or raises
\* again); anything else cannot be called.
Handled(h, again) ==
    IF h = Slot("function", "traceback")
    THEN [error |-> LUA_ERRRUN, top |-> Slot("traceback", "script error")]
    ELSE IF h.kind = "function" /\ ~again
    THEN [error |-> LUA_ERRRUN, top |-> Slot("value", "handler result")]
    ELSE [error |-> LUA_ERRERR,
          top |-> Slot("message", "error in error handling")]

\* The chunk raises an error nothing in it catches
ScriptError ==
    /\ pc = "run"
    /\ \E again \in BOOLEAN :
          /\ stack' = Append(StackBase, Handled(handler, again).top)
          /\ error' = Handled(handler, again).error
    /\ pc' = "report"
    /\ last' = NoCall
    /\ UNCHANGED <<argv, selfOk, initOk, archive, chain0, LUAL_BUFFERSIZE,
                   BUFSIZ, skip_arg, mounts, lua, loaders, arg, forwarded,
                   handler, stderr, exitCode, physfs, fds, handles, got,
                   module, filename, overrun>>

\* Lines 399-401 with PHYSFS_deinit before lua_close
Teardown_deinit_first == <<"deinit", "close", "return">>

\* lines 399-401: lua_close, PHYSFS_deinit, return, in this order
Teardown == <<"close", "deinit", "return">>

\* The statement after step of the teardown
After(step) ==
    Teardown[1 + CHOOSE i \in 1..Len(Teardown) : Teardown[i] = step]

\* lines 396-397
Report ==
    /\ pc = "report"
    /\ stderr' = IF error # 0 THEN Append(stderr, stack[Len(stack)])
                 ELSE stderr
    /\ pc' = Teardown[1]
    /\ UNCHANGED <<argv, selfOk, initOk, archive, chain0, LUAL_BUFFERSIZE,
                   BUFSIZ, skip_arg, mounts, lua, loaders, arg, stack, error,
                   forwarded, handler, exitCode, physfs, fds, handles, got,
                   last, module, filename, overrun>>

\* line 399: lua_close runs __gc (seed_file_gc) for every handle left; the
\* PHYSFS_close of the handles in F fails
LuaClose ==
    /\ pc = "close"
    /\ \E F \in SUBSET Live :
          LET closing == {h \in Live : handles[h].file # NULL /\ h \notin F}
          IN  /\ handles' = [h \in DOMAIN handles |-> Collected]
              /\ fds' = [f \in DOMAIN fds |->
                    IF \E h \in closing : handles[h].file = f
                    THEN Freed
                    ELSE fds[f]]
    /\ got' = [h \in DOMAIN got |-> <<>>]
    /\ lua' = "closed"
    /\ pc' = After("close")
    /\ UNCHANGED <<argv, selfOk, initOk, archive, chain0, LUAL_BUFFERSIZE,
                   BUFSIZ, skip_arg, mounts, loaders, arg, stack, error,
                   forwarded, handler, stderr, exitCode, physfs, last,
                   module, filename, overrun>>

\* line 400: PHYSFS_deinit closes whatever is still open
PhysfsDeinit ==
    /\ pc = "deinit"
    /\ physfs' = "deinit"
    /\ fds' = [f \in DOMAIN fds |-> Freed]
    /\ pc' = After("deinit")
    /\ UNCHANGED <<argv, selfOk, initOk, archive, chain0, LUAL_BUFFERSIZE,
                   BUFSIZ, skip_arg, mounts, lua, loaders, arg, stack, error,
                   forwarded, handler, stderr, exitCode, handles, got, last,
                   module, filename, overrun>>

\* line 401
Return ==
    /\ pc = "return"
    /\ exitCode' = error
    /\ pc' = "exit"
    /\ UNCHANGED <<argv, selfOk, initOk, archive, chain0, LUAL_BUFFERSIZE,
                   BUFSIZ, skip_arg, mounts, lua, loaders, arg, stack, error,
                   forwarded, handler, stderr, physfs, fds, handles, got,
                   last, module, filename, overrun>>

\* Once a pull has written past rd->buffer (over rd->file and the stack of
\* seed_loadfile) the behaviour is undefined: the process may go on as if
\* nothing had happened, or be killed (SIGABRT 134, SIGSEGV 139) at any later
\* point.
Crash ==
    /\ overrun
    /\ pc # "exit"
    /\ pc' = "exit"
    /\ exitCode' \in {134, 139}
    /\ UNCHANGED <<argv, selfOk, initOk, archive, chain0, LUAL_BUFFERSIZE,
                   BUFSIZ, skip_arg, mounts, lua, loaders, arg, stack, error,
                   forwarded, handler, stderr, physfs, fds, handles, got,
                   last, module, filename, overrun>>

\* to_filename applied to the module name drawn by InitPath
ToFilename ==
    /\ pc = "path"
    /\ filename' = to_filename(module)
    /\ pc' = "exit"
    /\ UNCHANGED <<argv, selfOk, initOk, archive, chain0, LUAL_BUFFERSIZE,
                   BUFSIZ, skip_arg, mounts, lua, loaders, arg, stack, error,
                   forwarded, handler, stderr, exitCode, physfs, fds,
                   handles, got, last, module, overrun>>

----------------------------------------------------------------------------
(* Specifications *)

\* package.loaders of Lua 5.1 after luaL_openlibs
Lua51Loaders == <<"preload", "lua", "c", "allinone">>

ArgStrings == {"game.zip", "a", "b"}
Argvs == {<<"seed">> \o s : s \in SeqsUpTo(ArgStrings, MaxArgs)}
Chains == SeqsUpTo({"A", "B"}, MaxChain) \ {<<>>}
Archives == {GoodArchive, BadInitArchive, NoInitArchive}
ModuleNames == SeqsUpTo({"a", "."}, MaxModLen)

InitState(argvs, selfOks, initOks, archives, chains, start, modules) ==
    /\ pc = start
    /\ argv \in argvs
    /\ selfOk \in selfOks
    /\ initOk \in initOks
    /\ archive \in archives
    /\ chain0 \in chains
    /\ LUAL_BUFFERSIZE \in {1, MaxBufferSize}
    /\ skip_arg = 1
    /\ mounts = <<>>
    /\ lua = "none"
    /\ loaders = <<>>
    /\ arg = <<>>
    /\ stack = <<>>
    /\ error = 0
    /\ forwarded = <<>>
    /\ handler = NoSlot
    /\ stderr = <<>>
    /\ exitCode = -1
    /\ physfs = "off"
    /\ fds = <<>>
    /\ handles = <<>>
    /\ got = <<>>
    /\ last = NoCall
    /\ module \in modules
    /\ filename = <<>>
    /\ overrun = FALSE

\* luaconf.h of Lua 5.1 defines LUAL_BUFFERSIZE as BUFSIZ
InitWith(argvs, selfOks, initOks, archives, chains, start, modules) ==
    /\ InitState(argvs, selfOks, initOks, archives, chains, start, modules)
    /\ BUFSIZ = LUAL_BUFFERSIZE

MainNext ==
    \/ PhysfsInit
    \/ Mount
    \/ LuaOpen
    \/ LoadArgs
    \/ LoadEntry
    \/ CallEntry
    \/ ScriptReturn
    \/ ScriptError
    \/ Report
    \/ LuaClose
    \/ PhysfsDeinit
    \/ Return

FileNext ==
    \/ Open
    \/ Read
    \/ Close
    \/ Gc

LoadNext ==
    \/ LoadFile
    \/ Require

\* One invocation, seed a, of an executable that carries its archive.
Init ==
    InitWith({<<"seed", "a">>}, {TRUE}, {TRUE}, {GoodArchive},
             {Lua51Loaders}, "start", {<<>>})

\* The chunk init.lua uses the raw file API: seed.open, read, close, and
\* handles it drops are collected, in any order.
Next == MainNext \/ FileNext

Spec == Init /\ [][Next]_vars

\* The chunk init.lua loads code: seed.loadfile and require, in any order.
NextLoad == MainNext \/ LoadNext

SpecLoad == Init /\ [][NextLoad]_vars

\* The chunk init.lua makes any seed call in any order.
SpecAll == Init /\ [][MainNext \/ FileNext \/ LoadNext]_vars

\* Every invocation within the bounds; the chunk makes no seed calls.
InitBoot ==
    InitWith(Argvs, BOOLEAN, BOOLEAN, Archives, Chains, "start", {<<>>})

SpecBoot == InitBoot /\ [][MainNext]_vars

\* The chunk init.lua opens several files and closes them or drops the
\* handles, in any order, without reading.
NextGc == MainNext \/ OpenSeveral \/ Close \/ Gc

SpecGc == Init /\ [][NextGc]_vars

\* The invocation of Init with a Lua whose LUAL_BUFFERSIZE is configured
\* apart from stdio.h's BUFSIZ.
InitBuf ==
    /\ InitState({<<"seed", "a">>}, {TRUE}, {TRUE}, {GoodArchive},
                 {Lua51Loaders}, "start", {<<>>})
    /\ BUFSIZ \in 1..(MaxBufferSize + 1)

NextBuf == NextLoad \/ Crash

SpecBuf == InitBuf /\ [][NextBuf]_vars

\* to_filename on every module name within the bounds.
InitPath ==
    InitWith({<<"seed">>}, {TRUE}, {TRUE}, {GoodArchive}, {Lua51Loaders},
             "path", ModuleNames)

SpecPath == InitPath /\ [][ToFilename]_vars

----------------------------------------------------------------------------
(* Claims *)

\* A step in which the chunk makes a seed call: last' describes that call,
\* the unprimed variables the state it was made in.
CallStep(ops) == pc = "run" /\ pc' = "run" /\ last'.op \in ops

\* C1: the first close() of an open handle whose PHYSFS_close succeeds
\* returns true and sets the handle's PHYSFS_file pointer to NULL; from then
\* on the pointer stays NULL, and every close() and read(...) of that handle
\* raises 'attempt to use a closed file' without any PhysicsFS call and
\* without changing any PHYSFS_file.
C1_Step ==
    /\ \A h \in 1..Len(handles) :
          IsLive(handles[h]) /\ handles[h].file = NULL
             => handles'[h].file = NULL
    /\ CallStep({"close", "read"}) =>
          LET h == last'.h
              f == handles[h].file
          IN  IF f = NULL
              THEN /\ last'.res = ClosedFile
                   /\ ~last'.touched
                   /\ fds' = fds
              ELSE last'.op = "close" /\ ~fds'[f].open
                      => /\ last'.res = LuaTrue
                         /\ handles'[h].file = NULL

C1_CloseOnceThenClosedFileError == [][C1_Step]_vars

\* A read of a handle that an earlier close() closed was refused.
C1_Witness ==
    /\ pc = "run"
    /\ last.op = "read"
    /\ ~last.open0
    /\ last.res = ClosedFile
    /\ handles[last.h].file = NULL

\* C2: on an open handle at the end of its file (an empty file, or a file
\* whose bytes earlier reads consumed) read(n) with n > 0 returns nil, and
\* read("*a") (also read() with no argument) returns the empty string.
C2_Step ==
    CallStep({"read"}) =>
       LET h == last'.h
           f == handles[h].file
           a == last'.a
       IN  f # NULL /\ fds[f].pos = Len(archive[fds[f].path])
              => /\ a.num /\ a.n > 0 => last'.res = LuaNil
                 /\ ~a.num /\ a.opt \in {"", "*a"}
                       => last'.res = LuaString(<<>>)

C2_NilVersusEmptyAtEof == [][C2_Step]_vars

\* read("*a") returned "" on a handle whose earlier reads consumed the file.
C2_Witness ==
    /\ pc = "run"
    /\ last.op = "read"
    /\ last.open0
    /\ last.a = OptArg("*a")
    /\ last.pos0 > 0
    /\ last.res = LuaString(<<>>)

\* What C3 says of a read(n), n >= 0, of an open handle with r bytes left:
\* nil when r = 0, else the next Min(n, r) bytes of the file, after which the
\* handle stands Min(n, r) bytes further (so a short read, 0 < r < n, leaves
\* it at the end of the file and the next read(n) returns nil); and the
\* bytes an open handle's reads returned so far are the file up to its
\* position.
C3_Read ==
    LET h == last'.h
        f == handles[h].file
        n == last'.a.n
        content == archive[fds[f].path]
        pos == fds[f].pos
        r == Len(content) - pos
    IN  IF r = 0
        THEN last'.res = LuaNil /\ fds' = fds
        ELSE /\ last'.res = LuaString(SubSeq(content, pos + 1,
                                             pos + Min(n, r)))
             /\ fds'[f].pos = pos + Min(n, r)
             /\ (r < n => fds'[f].pos = Len(content))

C3_Got ==
    \A h \in 1..Len(handles) :
       handles[h].file # NULL
          => got[h] = SubSeq(archive[fds[handles[h].file].path], 1,
                             fds[handles[h].file].pos)

BoundedRead ==
    /\ CallStep({"read"})
    /\ last'.a.num
    /\ last'.a.n >= 0
    /\ handles[last'.h].file # NULL

\* C3: every read(n) of an open handle returns Min(n, remaining) bytes (nil
\* when nothing remains), a short read is followed by nil, and the results
\* concatenated are the file's content, nothing lost or repeated.
C3_BoundedReads == [][(BoundedRead => C3_Read) /\ C3_Got']_vars

\* The same, for the reads none of whose PHYSFS_read calls failed.
C3_BoundedReadsNoFailure ==
    [][(BoundedRead /\ ~last'.failed => C3_Read) /\ C3_Got']_vars

\* A read(n) that took more than one PHYSFS_read and came out short.
C3_Witness ==
    /\ pc = "run"
    /\ last.op = "read"
    /\ last.a.num
    /\ ~last.failed
    /\ last.a.n > LUAL_BUFFERSIZE
    /\ Len(last.res.bytes) > LUAL_BUFFERSIZE
    /\ Len(last.res.bytes) < last.a.n

\* The arguments the user gave the program: all of them when the executable
\* itself was mounted, those after the archive's path when argv[1] was.
UserArgs ==
    IF selfOk THEN SubSeq(argv, 2, Len(argv)) ELSE SubSeq(argv, 3, Len(argv))

\* The chunk has been called (lines 390-393 ran)
Called == handler # NoSlot

\* C4: when the executable cannot be mounted and argv[1] can, argv[1] is
\* mounted and skip_arg is 2, one more than the 1 of a mounted executable; in
\* both cases the strings passed to the chunk, and the entries 1..k of the
\* global arg table (which has no further positive index), are the user's
\* arguments in their order.
C4_ForwardedArgsAreUserArgs ==
    /\ lua # "none" /\ selfOk => skip_arg = 1 /\ Len(mounts) = 1
    /\ lua # "none" /\ ~selfOk
          => /\ skip_arg = 2
             /\ Len(mounts) = 2
             /\ mounts[2] = [path |-> Argv(1), ok |-> TRUE]
    /\ pc \in {"load", "call", "run"}
          => /\ {k \in DOMAIN arg : k >= 1} = 1..Len(UserArgs)
             /\ \A k \in 1..Len(UserArgs) : arg[k] = UserArgs[k]
    /\ Called => forwarded = UserArgs

\* The chunk runs with the arguments a, b after the fallback mount of
\* game.zip.
C4_Witness ==
    /\ pc = "run"
    /\ argv = <<"seed", "game.zip", "a", "b">>
    /\ ~selfOk
    /\ skip_arg = 2
    /\ forwarded = <<"a", "b">>
    /\ arg[1] = "a" /\ arg[2] = "b"

\* The process has ended after the chunk was called
Ended == pc = "exit" /\ Called

\* C5: whatever the number of arguments passed to the chunk, an error the
\* chunk does not catch is handled by debug.traceback, the trace is what is
\* written to stderr, and the exit code is nonzero; a chunk that returns
\* leaves exit code 0.
C5_TracebackHandlesErrors ==
    /\ Called => handler = Slot("function", "traceback")
    /\ Ended /\ error # 0
          => /\ exitCode # 0
             /\ stderr = <<Slot("traceback", "script error")>>
    /\ Ended /\ error = 0 => exitCode = 0 /\ stderr = <<>>

\* The part of C5 about the exit code alone
C5_ExitCode ==
    /\ Ended /\ error # 0 => exitCode # 0 /\ Len(stderr) = 1
    /\ Ended /\ error = 0 => exitCode = 0 /\ stderr = <<>>

\* The chunk was called with no argument: debug.traceback is the handler
C5_NoArgument ==
    Called /\ forwarded = <<>> => handler = Slot("function", "traceback")

\* C6: init_physfs_loader makes physfs_searcher the second element of
\* package.loaders: the first element stays first, the others follow the
\* searcher in their order, none is lost; <<A, B>> becomes <<A, R, B>>.
C6_SearcherInsertedSecond ==
    lua # "none"
       => /\ Len(loaders) = Len(chain0) + 1
          /\ loaders[1] = chain0[1]
          /\ loaders[2] = "physfs_searcher"
          /\ \A i \in 2..Len(chain0) : loaders[i + 1] = chain0[i]
          /\ (chain0 = <<"A", "B">>
                 => loaders = <<"A", "physfs_searcher", "B">>)

\* package.loaders <<A, B>> after the registration
C6_Witness ==
    /\ lua = "open"
    /\ chain0 = <<"A", "B">>
    /\ loaders = <<"A", "physfs_searcher", "B">>

\* Neither mount can succeed: the executable is no archive, and argv[1] is
\* missing or is not one either
BothMountsFail ==
    ~selfOk /\ (argc < 2 \/ Argv(1) \notin MountablePaths)

\* init.lua has been opened, read or called
EntryTouched == stack # <<>> \/ fds # <<>> \/ Called

\* C8: when neither the executable nor argv[1] can be mounted, the process
\* reports it and exits with code 1, no Lua state is ever created, and
\* init.lua is never loaded or run; init.lua is loaded only when one of the
\* two mounts succeeded.
C8_NoArchiveExitsOne ==
    /\ initOk /\ BothMountsFail /\ pc \notin {"start", "mount"}
          => /\ pc = "exit"
             /\ exitCode = 1
             /\ stderr = <<Slot("text", "no archive found")>>
    /\ BothMountsFail => lua = "none" /\ loaders = <<>> /\ ~EntryTouched
    /\ EntryTouched => \E i \in 1..Len(mounts) : mounts[i].ok

\* argv[1] was given, could not be mounted, and the process ended with 1
C8_Witness ==
    /\ pc = "exit"
    /\ ~selfOk
    /\ argc >= 2
    /\ mounts = <<[path |-> "self", ok |-> FALSE],
                  [path |-> Argv(1), ok |-> FALSE]>>
    /\ exitCode = 1
    /\ lua = "none"

\* What C7 says of a call of the searcher for a module whose file is absent:
\* the 'no physfs file' message for the derived path is returned, nothing is
\* raised, no PhysicsFS file is opened.
C7_Absent ==
    LET name == to_filename(last'.p)
    IN  /\ last'.res = LuaMessage("no physfs file", name)
        /\ ~last'.touched
        /\ fds' = fds

\* The searcher returned the chunk compiled from the whole file at the
\* derived path
C7_Loader ==
    LET name == to_filename(last'.p)
    IN  last'.res = LuaFunction(archive[Sanitize(name)], name)

\* seed_loadfile's error for the derived path went through the searcher
C7_LoadError ==
    LET name == to_filename(last'.p)
    IN  /\ last'.res.kind = "error"
        /\ last'.res.path = name
        /\ last'.res.msg \in {"couldn't open file", "error reading file",
                              "syntax error"}
        /\ last'.res.msg = "syntax error"
              => ~LuaCompiles(archive[Sanitize(name)])

SearcherStep == CallStep({"searcher"})

\* C7 as stated: the searcher returns the 'no physfs file' message, without
\* raising or opening a file, when the module's path is absent from the
\* archive, and a loader for exactly that path when it is present.
C7_LoaderWheneverPresent ==
    [][SearcherStep =>
          IF PHYSFS_exists(to_filename(last'.p))
          THEN C7_Loader
          ELSE C7_Absent]_vars

\* C7, amended: absent path, the message as above; present path, the
\* loader for exactly that path or, when the file cannot be opened, read or
\* compiled, seed_loadfile's error raised through the searcher - never the
\* 'no physfs file' message.
C7_LoaderOrLoadError ==
    [][SearcherStep =>
          IF PHYSFS_exists(to_filename(last'.p))
          THEN C7_Loader \/ C7_LoadError
          ELSE C7_Absent]_vars

\* require("p.q") got the loader of /p/q.lua
C7_Witness ==
    /\ pc = "run"
    /\ last.op = "searcher"
    /\ last.p = ModPQ
    /\ last.res = LuaFunction(<<4>>, <<"/", "p", "/", "q", ".", "l", "u", "a">>)

\* require("n") got the message: /n.lua is not in the archive
C7_WitnessAbsent ==
    /\ pc = "run"
    /\ last.op = "searcher"
    /\ last.p = ModNone
    /\ last.res.kind = "message"
    /\ ~last.touched

\* What C9 says of seed.open(p) and seed.open(p, "rb"): either the pair nil,
\* message with a non-empty message, nothing raised, no handle made and no
\* PHYSFS_file left open - the only outcome for a path the archive lacks -
\* or a new live handle whose PHYSFS_file is not NULL and stands open at
\* the start of the file p.
C9_Opened ==
    LET p == last'.p
        res == last'.res
    IN  /\ res.kind \in {"nilmsg", "handle"}
        /\ ~PHYSFS_exists(p) => res.kind = "nilmsg"
        /\ res.kind = "nilmsg"
              => res.msg # "" /\ handles' = handles /\ fds' = fds
        /\ res.kind = "handle"
              => /\ PHYSFS_exists(p)
                 /\ res.h \in 1..Len(handles')
                 /\ res.h \in 1..Len(handles) => ~IsLive(handles[res.h])
                 /\ IsLive(handles'[res.h])
                 /\ handles'[res.h].file # NULL
                 /\ fds'[handles'[res.h].file] =
                       [path |-> Sanitize(p), pos |-> 0, open |-> TRUE]

\* A mode that is not "rb" is refused before any PhysicsFS call
C9_Refused ==
    /\ last'.res = LuaError("invalid option")
    /\ ~last'.touched
    /\ fds' = fds
    /\ handles' = handles

C9_Step ==
    /\ CallStep({"open"}) =>
          IF last'.mode \in {"", "rb"} THEN C9_Opened ELSE C9_Refused
    /\ CallStep({"read", "close"}) /\ handles[last'.h].file # NULL
          => last'.res # ClosedFile

\* C9: seed.open(path, mode) returns nil and a non-empty message, without
\* raising and without making a handle, when the path is not in the archive
\* or cannot be opened; otherwise a live handle with a non-NULL PHYSFS_file
\* that read and close accept; a mode other than "rb" (the default) is
\* refused as an invalid option before any file is opened.
C9_OpenOutcomes == [][C9_Step]_vars

\* seed.open of a file of the archive returned a handle, and a read through
\* that handle returned bytes
C9_Witness ==
    /\ pc = "run"
    /\ last.op = "read"
    /\ last.open0
    /\ last.res.kind = "string"
    /\ Len(last.res.bytes) > 0

\* seed.open of a path the archive lacks returned nil and a message
C9_WitnessMissing ==
    /\ pc = "run"
    /\ last.op = "open"
    /\ last.p = MissingPath
    /\ last.res = LuaNilMsg("File not found")

\* seed.open(p, "wb") was refused
C9_WitnessRefused ==
    /\ pc = "run"
    /\ last.op = "open"
    /\ last.mode = "wb"
    /\ last.res = LuaError("invalid option")

\* C10: to_filename maps a module name with k dots to "/", the name with
\* every dot replaced by "/", and ".lua": a path that starts with "/", ends
\* in ".lua", is 5 characters longer than the name, and holds k "/" besides
\* the leading one.
C10_ToFilename ==
    pc = "exit" =>
       LET k == Cardinality({i \in 1..Len(module) : module[i] = "."})
           n == Len(module)
       IN  /\ Len(filename) = n + 5
           /\ filename[1] = "/"
           /\ SubSeq(filename, n + 2, n + 5) = <<".", "l", "u", "a">>
           /\ \A i \in 1..n :
                 filename[i + 1] = IF module[i] = "." THEN "/" ELSE module[i]
           /\ Cardinality({i \in 2..Len(filename) : filename[i] = "/"}) = k
           /\ (module = <<"a">> => filename = <<"/", "a", ".", "l", "u", "a">>)
           /\ (module = <<"a", ".", "a">>
                  => filename = <<"/", "a", "/", "a", ".", "l", "u", "a">>)

\* The path of a.a.a.a, a name with three dots
C10_Witness ==
    /\ pc = "exit"
    /\ module = <<"a", ".", "a", ".", "a", ".", "a">>
    /\ filename = <<"/", "a", "/", "a", "/", "a", "/", "a",
                    ".", "l", "u", "a">>

\* The file name a call of seed.loadfile or of the searcher hands to
\* seed_loadfile
LoadName(call) ==
    IF call.op = "searcher" THEN to_filename(call.p) ELSE call.p

LoadStep == CallStep({"loadfile", "searcher"})

\* C11: when a PHYSFS_read of the chunk reader fails, the load raises
\* 'error reading file' out of seed_loadfile and no chunk comes back; when
\* none fails, the pulls go on to the zero-length one, the compiler gets the
\* whole file, and a source that compiles comes back as the compiled chunk.
C11_Step ==
    LoadStep =>
       LET name == LoadName(last')
           res == last'.res
       IN  /\ last'.failed => res = LuaErrorAt("error reading file", name)
           /\ res.kind = "function"
                 => ~last'.failed /\ res.bytes = archive[Sanitize(name)]
           /\ ~last'.failed /\ res.msg # "couldn't open file"
              /\ PHYSFS_exists(name) /\ LuaCompiles(archive[Sanitize(name)])
                 => res = LuaFunction(archive[Sanitize(name)], name)

C11_ReadFailureRaises == [][C11_Step]_vars

\* seed.loadfile raised 'error reading file'
C11_Witness ==
    /\ pc = "run"
    /\ last.op = "loadfile"
    /\ last.failed
    /\ last.res = LuaErrorAt("error reading file", PathM)

\* seed.loadfile of the three bytes of m.lua, read to the end, gave the chunk
C11_WitnessLoaded ==
    /\ pc = "run"
    /\ last.op = "loadfile"
    /\ ~last.failed
    /\ last.res = LuaFunction(<<1, 2, 3>>, PathM)

\* A read(n), n >= 0, read("*a") or read() of an open handle
FileRead ==
    /\ CallStep({"read"})
    /\ handles[last'.h].file # NULL
    /\ IF last'.a.num THEN last'.a.n >= 0 ELSE last'.a.opt \in {"", "*a"}

\* C12: when a PHYSFS_read fails during read(n) or read("*a") of a handle,
\* the call raises an error; it never returns a string, truncated or empty,
\* as if the read had gone well.
C12_ReadFailureRaised ==
    [][FileRead /\ last'.failed => last'.res.kind = "error"]_vars

\* What the code does instead: the failed read ends the loop and the bytes
\* gathered before it are returned as the result.
C12_ReadFailureReturnsString ==
    [][FileRead /\ last'.failed => last'.res.kind = "string"]_vars

\* read(n) came back with fewer bytes than asked for and than were left,
\* after a failed PHYSFS_read
C12_TruncatedString ==
    /\ pc = "run"
    /\ last.op = "read"
    /\ last.failed
    /\ last.a.num
    /\ last.res.kind = "string"
    /\ Len(last.res.bytes) < last.a.n
    /\ Len(last.res.bytes)
          < Len(archive[fds[handles[last.h].file].path]) - last.pos0

\* C13: a close() of an open handle whose PHYSFS_close fails returns nil and
\* a message and leaves the handle's PHYSFS_file pointer as it was, not NULL
\* and still open, so that a later close() or read() of the handle does not
\* raise the closed-file error; the pointer of a handle becomes NULL only
\* in a close() of that handle whose PHYSFS_close succeeded.
C13_Step ==
    /\ CallStep({"close"}) =>
          LET h == last'.h
              f == handles[h].file
          IN  f # NULL /\ fds'[f].open
                 => /\ last'.res.kind = "nilmsg"
                    /\ last'.res.msg # ""
                    /\ handles'[h] = handles[h]
                    /\ fds' = fds
    /\ CallStep({"close", "read"}) /\ handles[last'.h].file # NULL
          => last'.res.kind # "error" \/ last'.res.msg # ClosedFile.msg
    /\ \A h \in 1..Len(handles) :
          handles[h].file # NULL /\ IsLive(handles'[h])
          /\ handles'[h].file = NULL
             => /\ CallStep({"close"})
                /\ last'.h = h
                /\ last'.res = LuaTrue
                /\ ~fds'[handles[h].file].open

C13_FailedCloseKeepsHandle == [][C13_Step]_vars

\* A close() failed: the handle still has its open PHYSFS_file
C13_Witness ==
    /\ pc = "run"
    /\ last.op = "close"
    /\ last.open0
    /\ last.res.kind = "nilmsg"
    /\ handles[last.h].file # NULL
    /\ fds[handles[last.h].file].open

\* C14: whatever the values of BUFSIZ and LUAL_BUFFERSIZE, a pull of the
\* chunk reader asks PHYSFS_read for no more bytes than rd->buffer holds, so
\* that no pull ever writes more than LUAL_BUFFERSIZE bytes into it.
C14_NoPullOverrunsBuffer == ~overrun

\* With BUFSIZ <= LUAL_BUFFERSIZE no pull writes past the buffer
C14_NoOverrunWhenBufsizFits ==
    BUFSIZ <= LUAL_BUFFERSIZE => ~overrun

\* A pull wrote more bytes than the buffer holds
C14_Overrun ==
    overrun /\ BUFSIZ > LUAL_BUFFERSIZE

\* The mount attempts made so far are the self path alone, or the failed
\* self path followed by argv[1]; at most one of them succeeded.
C15_Mounts ==
    /\ Len(mounts) <= 2
    /\ Cardinality({i \in 1..Len(mounts) : mounts[i].ok}) <= 1
    /\ Len(mounts) >= 1 => mounts[1].path = "self"
    /\ Len(mounts) = 2
          => /\ ~mounts[1].ok
             /\ ~selfOk
             /\ mounts[2].path = Argv(1)
    /\ \A i \in 1..Len(mounts) : mounts[i].ok => i = Len(mounts)

\* C15: in every run at most two mounts are attempted and at most one
\* succeeds: the self path first, argv[1] only after the self path failed
\* and never after a successful mount; all attempts are made in one step of
\* main and none is made again later.
C15_OneMountNoRetry ==
    [][C15_Mounts' /\ (mounts' # mounts => mounts = <<>> /\ pc = "mount")]_vars

\* A run that mounted argv[1] after the self path failed, at its end
C15_Witness ==
    /\ pc = "exit"
    /\ lua = "closed"
    /\ mounts = <<[path |-> "self", ok |-> FALSE],
                  [path |-> "game.zip", ok |-> TRUE]>>

\* The process has ended after the load of init.lua failed
LoadFailed == pc = "exit" /\ lua = "closed" /\ ~Called

\* C16: when the load of init.lua fails (no such file, a failed read, a
\* source that does not compile) what is written to stderr is the trace
\* made by debug.traceback, and the exit code is not 0.
C16_LoadFailureTraced ==
    LoadFailed
       => /\ Len(stderr) = 1
          /\ stderr[1].kind = "traceback"
          /\ exitCode # 0

\* What the code does: the message of seed_loadfile is written as it was
\* raised, without a trace; the exit code is LUA_ERRRUN.
C16_LoadFailureUntraced ==
    LoadFailed
       => /\ Len(stderr) = 1
          /\ stderr[1].kind = "message"
          /\ stderr[1].s \in {"couldn't open file", "error reading file",
                              "syntax error"}
          /\ exitCode = LUA_ERRRUN

\* A run whose archive has no init.lua, at its end
C16_MissingEntry ==
    /\ LoadFailed
    /\ archive = NoInitArchive
    /\ stderr = <<Slot("message", "couldn't open file")>>

\* The PHYSFS_file objects that are open
OpenFds(table) == {f \in 1..Len(table) : table[f].open}

\* A step that is one whole invocation of seed_loadfile: the load of
\* init.lua, a seed.loadfile call, or a call of the searcher
LoadfileStep == pc = "load" \/ LoadStep

\* C17: every PHYSFS_file a seed_loadfile invocation opens is closed when
\* the invocation ends, with a chunk or with an error, so that no
\* invocation leaves more files open than it found.
C17_LoadfileClosesItsFile ==
    [][LoadfileStep => OpenFds(fds') = OpenFds(fds)]_vars

\* What holds of the code: an invocation that returns a chunk has closed its
\* file, and nothing is opened when the file cannot be opened.
C17_ClosedOnSuccess ==
    [][LoadStep /\ last'.res.kind \in {"function", "message"}
          => OpenFds(fds') = OpenFds(fds)]_vars

\* seed.loadfile raised a syntax error and left its file open
C17_Leak ==
    /\ pc = "run"
    /\ last.op = "loadfile"
    /\ last.res = LuaErrorAt("syntax error", PathBad)
    /\ \E f \in OpenFds(fds) : fds[f].path = PathBad

\* The handles that hold PHYSFS_file f
Holders(table, f) ==
    {h \in 1..Len(table) : IsLive(table[h]) /\ table[h].file = f}

\* Every pointer a live handle holds is to an open PHYSFS_file that no other
\* handle holds
C18_Owned ==
    \A h \in 1..Len(handles) :
       IsLive(handles[h]) /\ handles[h].file # NULL
          => /\ handles[h].file \in OpenFds(fds)
             /\ Holders(handles, handles[h].file) = {h}

\* The finalizer of handle h: no error; PHYSFS_close is called, once, if
\* the handle is open, and nothing is done if it is closed
C18_Gc ==
    LET h == last'.h
        f == handles[h].file
    IN  /\ last'.res = LuaNone
        /\ handles' = [handles EXCEPT ![h] = Collected]
        /\ IF f = NULL
           THEN ~last'.touched /\ fds' = fds
           ELSE /\ last'.touched
                /\ fds' = fds \/ fds' = [fds EXCEPT ![f] = Freed]

\* A PHYSFS_file is closed only through the one handle that holds it, by a
\* close() or a finalizer that found it open, and no handle holds it after
C18_ClosedOnce ==
    \A f \in OpenFds(fds) \ OpenFds(fds') :
       /\ CallStep({"close", "gc"})
       /\ last'.touched
       /\ Holders(handles, f) = {last'.h}
       /\ Holders(handles', f) = {}

\* C18: in any order of close() calls and finalizer runs over the handles,
\* each PHYSFS_file is closed successfully at most once; the finalizer closes
\* the file of a handle that is still open and does nothing, without an
\* error, for a closed one; no PHYSFS_file is held by two handles.
C18_Step ==
    /\ C18_Owned'
    /\ pc = "run" => C18_ClosedOnce
    /\ CallStep({"gc"}) => C18_Gc
    /\ CallStep({"close", "gc"}) /\ last'.touched
          => handles[last'.h].file \in OpenFds(fds)

C18_CloseAndGcInAnyOrder == [][C18_Step]_vars

\* The finalizer ran on a handle that close() had closed, while another
\* handle was open
C18_Witness ==
    /\ pc = "run"
    /\ last.op = "gc"
    /\ ~last.open0
    /\ ~last.touched
    /\ \E h \in 1..Len(handles) :
          IsLive(handles[h]) /\ handles[h].file \in OpenFds(fds)

\* The finalizer closed the file of a handle dropped while open
C18_WitnessOpen ==
    /\ pc = "run"
    /\ last.op = "gc"
    /\ last.open0
    /\ OpenFds(fds) = {}

\* Some mount of the run succeeded
Mounted == \E i \in 1..Len(mounts) : mounts[i].ok

\* lua_close: made once, on the open state, while PhysicsFS is initialized;
\* it finalizes every handle, and the only PHYSFS_file objects it closes are
\* those the handles held
C19_LuaClose ==
    /\ lua = "open"
    /\ physfs = "on" /\ physfs' = "on"
    /\ \A h \in 1..Len(handles') : ~IsLive(handles'[h])
    /\ \A f \in 1..Len(fds) :
          \/ fds'[f] = fds[f]
          \/ fds'[f] = Freed /\ Holders(handles, f) # {}

\* PHYSFS_deinit: made once, after lua_close; no PHYSFS_file is open after
C19_Deinit ==
    /\ physfs = "on"
    /\ lua = "closed"
    /\ OpenFds(fds') = {}

\* C19: a run in which a mount succeeded ends, whether the chunk returned or
\* raised, with one lua_close followed by one PHYSFS_deinit; the handles
\* still open are finalized by lua_close, before PHYSFS_deinit, and after
\* PHYSFS_deinit no PHYSFS_file is read or closed.
C19_Step ==
    /\ lua' = "closed" /\ lua # "closed" => C19_LuaClose
    /\ physfs' = "deinit" /\ physfs # "deinit" => C19_Deinit
    /\ lua = "closed" => lua' = "closed"
    /\ physfs = "deinit"
          => physfs' = "deinit" /\ fds' = fds /\ handles' = handles
    /\ pc' = "exit" /\ Mounted'
          => /\ lua' = "closed"
             /\ physfs' = "deinit"
             /\ OpenFds(fds') = {}
             /\ exitCode' = error'

C19_TeardownOnceInOrder == [][C19_Step]_vars

\* The end of a run whose chunk opened a file and then raised an error
C19_Witness ==
    /\ pc = "exit"
    /\ Mounted
    /\ error # 0
    /\ lua = "closed"
    /\ physfs = "deinit"
    /\ Len(handles) >= 1
    /\ Len(fds) >= 1

\* lua_close has finalized the handles and PHYSFS_deinit is still to come,
\* in a run whose chunk returned
C19_WitnessBetween ==
    /\ pc = "deinit"
    /\ error = 0
    /\ lua = "closed"
    /\ physfs = "on"
    /\ Len(handles) >= 1
    /\ OpenFds(fds) = {}

====
